---------------------------- MODULE Spec2Model ----------------------------
(***************************************************************************)
(* A model of streamlit_app.py, the invoice generator of The ATM Agency.  *)
(*                                                                         *)
(* The script is a Streamlit page: every user interaction re-runs it from  *)
(* top to bottom inside one browser session.  The model follows one        *)
(* session: st.session_state survives from run to run, everything else is  *)
(* rebuilt by each run.  A run is a chain of steps in source order         *)
(* (sidebar, form, validation, rendering, webhook, Google Drive, download, *)
(* JSON preview, footer); pc is the position of the run.                   *)
(*                                                                         *)
(* External collaborators (Jinja2/pdfkit, the webhook endpoint, the Drive  *)
(* API) are modelled by the outcomes they can hand back to the script:     *)
(* a value or a raised exception.  Money is Python float arithmetic, and   *)
(* is modelled as IEEE-754 binary64 with round-to-nearest-even.            *)
(***************************************************************************)
EXTENDS Integers, Sequences, FiniteSets, TLC

(***************************************************************************)
(* Python float: IEEE-754 binary64.                                        *)
(*                                                                         *)
(* A natural number is a little-endian sequence of limbs in base 2^13      *)
(* without high-order zero limbs (<<>> is 0), so that every intermediate   *)
(* value fits a 32-bit integer.  A float is [m, e] of value m * 2^e whose  *)
(* mantissa m has exactly Precision bits (or is 0), so equal floats are    *)
(* equal records.  All quantities of the program are non-negative and far  *)
(* from the subnormal and overflow ranges.                                  *)
(***************************************************************************)

Precision == 53

LimbBits == 13

Base == 2 ^ LimbBits

Max(a, b) == IF a >= b THEN a ELSE b

Min(a, b) == IF a <= b THEN a ELSE b

\* number of bits of a machine integer x >= 1
IntBitLen(x) == CHOOSE k \in 1..31 : 2 ^ (k - 1) <= x /\ (k = 31 \/ x < 2 ^ k)

NTrim(a) ==
    LET nz == {i \in 1..Len(a) : a[i] # 0}
    IN  IF nz = {} THEN <<>>
        ELSE SubSeq(a, 1, CHOOSE i \in nz : \A j \in nz : j <= i)

RECURSIVE FromNat(_)
FromNat(n) == IF n = 0 THEN <<>> ELSE <<n % Base>> \o FromNat(n \div Base)

LimbAt(a, i) == IF i >= 1 /\ i <= Len(a) THEN a[i] ELSE 0

RECURSIVE Carry(_, _, _)
Carry(cols, i, c) ==
    IF i > Len(cols) THEN FromNat(c)
    ELSE LET s == cols[i] + c
         IN  <<s % Base>> \o Carry(cols, i + 1, s \div Base)

NAdd(a, b) ==
    Carry([i \in 1..Max(Len(a), Len(b)) |-> LimbAt(a, i) + LimbAt(b, i)], 1, 0)

\* a * k for a machine integer k <= Base
NMulSmall(a, k) == NTrim(Carry([i \in 1..Len(a) |-> a[i] * k], 1, 0))

RECURSIVE ColumnSum(_, _, _, _)
ColumnSum(a, b, k, i) ==
    IF i > Len(a) THEN 0
    ELSE a[i] * LimbAt(b, k - i + 1) + ColumnSum(a, b, k, i + 1)

\* schoolbook product: column sums, then one carry pass
NMul(a, b) ==
    IF a = <<>> \/ b = <<>> THEN <<>>
    ELSE NTrim(Carry([k \in 1..(Len(a) + Len(b) - 1) |-> ColumnSum(a, b, k, 1)],
                     1, 0))

\* the limbs a[i], a[i+1], ... read as a number, modulo d
RECURSIVE RemAbove(_, _, _)
RemAbove(a, d, i) ==
    IF i > Len(a) THEN 0 ELSE (RemAbove(a, d, i + 1) * Base + a[i]) % d

\* quotient and remainder of a by a machine integer 1 <= d <= 2^17
NDivSmall(a, d) ==
    [q |-> NTrim([i \in 1..Len(a) |->
                    (RemAbove(a, d, i + 1) * Base + a[i]) \div d]),
     r |-> RemAbove(a, d, 1)]

NBitLen(a) ==
    IF a = <<>> THEN 0 ELSE LimbBits * (Len(a) - 1) + IntBitLen(a[Len(a)])

NShl(a, s) ==
    IF a = <<>> THEN <<>>
    ELSE [i \in 1..(s \div LimbBits) |-> 0] \o NMulSmall(a, 2 ^ (s % LimbBits))

\* a shifted right by s bits, and whether a non-zero bit was shifted out
NShrSticky(a, s) ==
    LET w  == Min(s \div LimbBits, Len(a))
        dm == NDivSmall(SubSeq(a, w + 1, Len(a)), 2 ^ (s % LimbBits))
    IN  [q |-> dm.q, nz |-> dm.r # 0 \/ \E i \in 1..w : a[i] # 0]

FZero == [m |-> <<>>, e |-> 0]

\* The binary64 nearest to n / d * 2^e, ties to even (d a machine integer).
RoundNearestEven(n, d, e) ==
    IF n = <<>> THEN FZero
    ELSE LET s      == Max(0, Precision + 2 + IntBitLen(d) - NBitLen(n))
             dm     == NDivSmall(NShl(n, s), d)
             drop   == NBitLen(dm.q) - Precision
             sh     == NShrSticky(dm.q, drop - 1)
             m0     == NDivSmall(sh.q, 2).q
             sticky == dm.r # 0 \/ sh.nz
             up     == sh.q[1] % 2 = 1 /\ (sticky \/ m0[1] % 2 = 1)
             m1     == IF up THEN NAdd(m0, <<1>>) ELSE m0
         IN  IF NBitLen(m1) > Precision
             THEN [m |-> NDivSmall(m1, 2).q, e |-> e - s + drop + 1]
             ELSE [m |-> m1, e |-> e - s + drop]

\* float(k) of an int k
FromInt(k) == RoundNearestEven(FromNat(k), 1, 0)

\* x * y
FMul(x, y) == RoundNearestEven(NMul(x.m, y.m), 1, x.e + y.e)

\* x / k for an int literal k
FDivInt(x, k) == RoundNearestEven(x.m, k, x.e)

\* x + y
FAdd(x, y) ==
    IF x.m = <<>> THEN y
    ELSE IF y.m = <<>> THEN x
    ELSE LET e == Min(x.e, y.e)
         IN  RoundNearestEven(NAdd(NShl(x.m, x.e - e), NShl(y.m, y.e - e)), 1, e)

(***************************************************************************)
(* Inputs the user and the environment can supply.                         *)
(***************************************************************************)

\* st.text_input values: "" is an empty field; the last URL has a host with
\* an empty label
WebhookUrls == {"", "https://n8n.example/webhook/invoice",
                "https://n8n..example/webhook/invoice"}

HasEmptyHostLabel(url) == url = "https://n8n..example/webhook/invoice"

FolderIds == {"", "1ABC123xyz"}

CustomerNames == {"", "Jane Doe"}

CustomerAddresses == {"", "1 Main St"}

InvoiceNumbers == {"INV-20240101-0900", "INV-7"}

\* st.file_uploader: "" is no file, otherwise the text of the uploaded file
NoFile == ""

ValidJsonFiles == {"{\"client_email\": \"a@x\"}", "{\"client_email\": \"b@x\"}"}

UploadedFiles == {NoFile, "not json"} \cup ValidJsonFiles

\* st.number_input("Price per Unit ($)"), in cents: 19.99, 500.00, 1000.00
PriceCents == {1999, 50000, 100000}

\* st.number_input("Quantity*", min_value=1, max_value=1000)
Quantities == {1, 2, 3}

\* st.slider("Tax Rate (%)", 0.0 .. 20.0, step=0.5), in half percents
TaxHalves == {0, 14, 20}

\* float(text) of a decimal with two places
FromCents(c) == RoundNearestEven(FromNat(c), 100, 0)

\* the slider's float: a multiple of 0.5
FromHalves(h) == RoundNearestEven(FromNat(h), 2, 0)

\* line 105: subtotal = price_per_unit * quantity
Subtotal(price, qty) == FMul(price, FromInt(qty))

\* line 106: tax_amount = subtotal * (tax_rate / 100)
TaxAmount(sub, rate) == FMul(sub, FDivInt(rate, 100))

\* line 107: total = subtotal + tax_amount
Total(sub, tax) == FAdd(sub, tax)

(***************************************************************************)
(* Exceptions.  A class is caught by an except clause naming it or one of  *)
(* its base classes; a try statement runs the first clause that matches    *)
(* and lets the exception through when none does.                          *)
(***************************************************************************)

BaseClass ==
    [ReadTimeout        |-> "Timeout",
     ConnectTimeout     |-> "Timeout",
     Timeout            |-> "RequestException",
     ConnectionError    |-> "RequestException",
     RequestException   |-> "OSError",
     OSError            |-> "Exception",
     LocationParseError |-> "ValueError",
     ValueError         |-> "Exception",
     HttpError          |-> "Exception",
     Exception          |-> "BaseException"]

RECURSIVE IsInstance(_, _)
IsInstance(e, class) ==
    \/ e = class
    \/ e \in DOMAIN BaseClass /\ IsInstance(BaseClass[e], class)

\* index of the first except clause that catches e, 0 when none does
FirstMatch(clauses, e) ==
    LET hits == {i \in 1..Len(clauses) : IsInstance(e, clauses[i])}
    IN  IF hits = {} THEN 0 ELSE CHOOSE i \in hits : \A j \in hits : i <= j

\* what template.render / pdfkit.from_string can raise
RenderExceptions == {"OSError"}

\* what requests.post can raise for a well-formed URL
PostExceptions == {"ReadTimeout", "ConnectTimeout", "ConnectionError"}

StatusCodes == {200, 201, 202, 204, 500}

\* response.text: empty, a JSON document, or text that is not JSON
ResponseTexts == {"", "{\"ok\": true}", "Internal Server Error"}

IsJson(text) == text = "{\"ok\": true}"

\* lines 224 and 226
WebhookExceptClauses == <<"Timeout", "RequestException">>

\* line 212
IsSuccessStatus(code) == code \in {200, 201, 202}

\* a validation that asks for the customer name only
MissingRequired_NameOnly(name, address) == name = ""

\* line 120
MissingRequired(name, address) == name = "" \/ address = ""

\* a webhook that does not wait for the document
WebhookEnabled_DataOnly(url, pdf) == url # ""

\* line 189
WebhookEnabled(url, pdf) == url # "" /\ pdf # <<>>

\* line 229
DriveEnabled(pdf, credentials, folder) ==
    pdf # <<>> /\ credentials # <<>> /\ folder # ""

\* line 268
DownloadOffered(pdf) == pdf # <<>>

\* lines 199, 243, 275
PdfFileName(number) == <<"invoice_", number, ".pdf">>

\* json.load, line 51: the parsed document, or <<>> when it raises
JsonLoad(file) ==
    IF file = "{\"client_email\": \"a@x\"}" THEN <<[client_email |-> "a@x"]>>
    ELSE IF file = "{\"client_email\": \"b@x\"}" THEN <<[client_email |-> "b@x"]>>
    ELSE <<>>

\* a sidebar that forgets the stored credentials when the upload does not parse
LoadCredentials_ClearOnError(file, credentials) ==
    IF file = NoFile THEN credentials ELSE JsonLoad(file)

\* lines 49-55: session_state['gdrive_credentials'] after the sidebar
LoadCredentials(file, credentials) ==
    IF file # NoFile /\ JsonLoad(file) # <<>> THEN JsonLoad(file) ELSE credentials

VARIABLES
    gdrive_credentials,     \* st.session_state: <<>> or <<service_account_info>>
    pc,                     \* position of the script run, "idle" between runs
    uploaded_service_file,  \* sidebar widgets
    webhook_url,
    gdrive_folder_id,
    customer_name,          \* form widgets
    customer_address,
    invoice_number,
    price_per_unit,
    quantity,
    tax_rate,
    subtotal,
    tax_amount,
    total,
    submit,
    invoice_data,           \* <<>> or <<the record>>
    pdf_bytes,              \* <<>> (None) or the document
    post_result,            \* what requests.post did: <<>>, <<response>>, <<exception>>
    post_request,           \* <<>> or <<what was POSTed>>
    drive_request,          \* <<>> or <<what was uploaded>>
    attempts,               \* the steps begun with an external collaborator
    ui                      \* the elements the run has put on the page

session == <<gdrive_credentials>>

sidebar == <<uploaded_service_file, webhook_url, gdrive_folder_id>>

form == <<customer_name, customer_address, invoice_number, price_per_unit,
          quantity, tax_rate, subtotal, tax_amount, total, submit>>

handler == <<invoice_data, pdf_bytes, post_result, post_request, drive_request,
             attempts>>

vars == <<session, pc, sidebar, form, handler, ui>>

Element(kind, key, detail) == [kind |-> kind, key |-> key, detail |-> detail]

Init ==
    /\ gdrive_credentials = <<>>
    /\ pc = "idle"
    /\ uploaded_service_file = NoFile
    /\ webhook_url = ""
    /\ gdrive_folder_id = ""
    /\ customer_name = ""
    /\ customer_address = ""
    /\ invoice_number = "INV-7"
    /\ price_per_unit = FZero
    /\ quantity = 1
    /\ tax_rate = FZero
    /\ subtotal = FZero
    /\ tax_amount = FZero
    /\ total = FZero
    /\ submit = FALSE
    /\ invoice_data = <<>>
    /\ pdf_bytes = <<>>
    /\ post_result = <<>>
    /\ post_request = <<>>
    /\ drive_request = <<>>
    /\ attempts = <<>>
    /\ ui = <<>>

\* lines 12-21: a user interaction starts a new run of the script, which
\* rebuilds the page and every script variable
Rerun ==
    /\ pc = "idle"
    /\ pc' = "sidebar"
    /\ uploaded_service_file' = NoFile
    /\ webhook_url' = ""
    /\ gdrive_folder_id' = ""
    /\ customer_name' = ""
    /\ customer_address' = ""
    /\ invoice_number' = "INV-7"
    /\ price_per_unit' = FZero
    /\ quantity' = 1
    /\ tax_rate' = FZero
    /\ subtotal' = FZero
    /\ tax_amount' = FZero
    /\ total' = FZero
    /\ submit' = FALSE
    /\ invoice_data' = <<>>
    /\ pdf_bytes' = <<>>
    /\ post_result' = <<>>
    /\ post_request' = <<>>
    /\ drive_request' = <<>>
    /\ attempts' = <<>>
    /\ ui' = <<>>
    /\ UNCHANGED session

\* lines 24-58
Sidebar ==
    /\ pc = "sidebar"
    /\ \E url \in WebhookUrls, file \in UploadedFiles, folder \in FolderIds :
        /\ webhook_url' = url
        /\ uploaded_service_file' = file
        /\ gdrive_folder_id' = folder
        /\ gdrive_credentials' = LoadCredentials(file, gdrive_credentials)
        /\ ui' = ui \o
            (IF file = NoFile THEN <<>>
             ELSE IF JsonLoad(file) # <<>>
             THEN <<Element("success", "service_account_loaded", "")>>
             ELSE <<Element("error", "service_account_error", "JSONDecodeError")>>)
    /\ pc' = "form"
    /\ UNCHANGED <<form, handler>>

\* lines 61-115
Form ==
    /\ pc = "form"
    /\ \E name \in CustomerNames, address \in CustomerAddresses,
          number \in InvoiceNumbers, c \in PriceCents, q \in Quantities,
          h \in TaxHalves, pressed \in BOOLEAN :
        /\ customer_name' = name
        /\ customer_address' = address
        /\ invoice_number' = number
        /\ price_per_unit' = FromCents(c)
        /\ quantity' = q
        /\ tax_rate' = FromHalves(h)
        /\ subtotal' = Subtotal(price_per_unit', quantity')
        /\ tax_amount' = TaxAmount(subtotal', tax_rate')
        /\ total' = Total(subtotal', tax_amount')
        /\ ui' = Append(ui, Element("info", "calculation",
                                    <<subtotal', tax_rate', tax_amount', total'>>))
        /\ submit' = pressed
        /\ pc' = IF pressed THEN "validate" ELSE "footer"
    /\ UNCHANGED <<session, sidebar, handler>>

\* lines 124-157 (the fields no step of the model reads are left out)
InvoiceData ==
    [invoice_number |-> invoice_number,
     customer  |-> [name |-> customer_name, address |-> customer_address],
     items     |-> <<[quantity       |-> quantity,
                      price_per_unit |-> price_per_unit,
                      subtotal       |-> subtotal]>>,
     financial |-> [subtotal   |-> subtotal,
                    tax_rate   |-> tax_rate,
                    tax_amount |-> tax_amount,
                    total      |-> total,
                    currency   |-> "USD"]]

\* lines 118-157
Validate ==
    /\ pc = "validate"
    /\ IF MissingRequired(customer_name, customer_address)
       THEN /\ ui' = Append(ui, Element("error", "required_fields", ""))
            /\ pc' = "footer"
            /\ UNCHANGED invoice_data
       ELSE /\ invoice_data' = <<InvoiceData>>
            /\ pc' = "render"
            /\ UNCHANGED ui
    /\ UNCHANGED <<session, sidebar, form, pdf_bytes, post_result, post_request,
                   drive_request, attempts>>

\* lines 159-187
Render ==
    /\ pc = "render"
    /\ attempts' = Append(attempts, "render")
    /\ \E outcome \in {"ok"} \cup RenderExceptions :
        IF outcome = "ok"
        THEN /\ pdf_bytes' = <<"%PDF", invoice_number>>
             /\ ui' = Append(ui, Element("success", "pdf_generated", ""))
        ELSE \* except Exception, line 185
             /\ FirstMatch(<<"Exception">>, outcome) = 1
             /\ pdf_bytes' = <<>>
             /\ ui' = ui \o <<Element("error", "pdf_error", outcome),
                              Element("info", "install_wkhtmltopdf", "")>>
    /\ pc' = "webhook"
    /\ UNCHANGED <<session, sidebar, form, invoice_data, post_result,
                   post_request, drive_request>>

\* base64.b64encode(pdf_bytes).decode('utf-8'), line 193
B64Encode(bytes) == <<"base64">> \o bytes

\* what requests.post hands back: a response, or a raised exception
Response(code, text) == [raised |-> "", status_code |-> code, text |-> text]

Raised(e) == [raised |-> e, status_code |-> 0, text |-> ""]

\* A host with an empty label cannot be encoded for name resolution: urllib3
\* raises LocationParseError (a ValueError), which requests passes on
\* unchanged; it is no RequestException.
PostResults(url) ==
    IF HasEmptyHostLabel(url) THEN {Raised("LocationParseError")}
    ELSE {Response(code, text) : code \in StatusCodes, text \in ResponseTexts}
            \cup {Raised(e) : e \in PostExceptions}

\* lines 212-227: what the webhook block puts on the page
WebhookReport(result) ==
    IF result.raised = ""
    THEN IF IsSuccessStatus(result.status_code)
         THEN <<Element("success", "webhook_sent", result.status_code),
                IF result.text # "" /\ ~IsJson(result.text)
                THEN Element("text", "webhook_response", result.text)
                ELSE Element("json", "webhook_response",
                             IF result.text # "" THEN result.text
                             ELSE "{\"status\": \"success\"}")>>
         ELSE <<Element("error", "webhook_failed_status", result.status_code),
                Element("code", "webhook_response_body", result.text)>>
    ELSE LET clause == FirstMatch(WebhookExceptClauses, result.raised)
         IN  IF clause = 1
             THEN <<Element("error", "webhook_timed_out", "")>>
             ELSE IF clause = 2
             THEN <<Element("error", "webhook_error", result.raised)>>
             ELSE \* no clause catches it: Streamlit shows the traceback
                  <<Element("exception", "uncaught", result.raised)>>

\* a webhook block that posts again after a failure
AfterWebhook_Retry(result) ==
    IF result.raised # "" \/ ~IsSuccessStatus(result.status_code)
    THEN "webhook"
    ELSE "drive"

\* where the run goes after the webhook block: an exception no clause catches
\* leaves the script
AfterWebhook(result) ==
    IF result.raised # "" /\ FirstMatch(WebhookExceptClauses, result.raised) = 0
    THEN "idle"
    ELSE "drive"

\* lines 189-227
Webhook ==
    /\ pc = "webhook"
    /\ IF WebhookEnabled(webhook_url, pdf_bytes)
       THEN /\ attempts' = Append(attempts, "webhook")
            /\ post_request' =
                 <<[url     |-> webhook_url,
                    json    |-> [record |-> invoice_data[1],
                                 pdf    |-> [filename  |-> PdfFileName(invoice_number),
                                             data      |-> B64Encode(pdf_bytes),
                                             mime_type |-> "application/pdf"]],
                    timeout |-> 30]>>
            /\ \E result \in PostResults(webhook_url) :
                /\ post_result' = <<result>>
                /\ ui' = ui \o WebhookReport(result)
                /\ pc' = AfterWebhook(result)
       ELSE /\ pc' = "drive"
            /\ UNCHANGED <<attempts, post_request, post_result, ui>>
    /\ UNCHANGED <<session, sidebar, form, invoice_data, pdf_bytes, drive_request>>

\* from_service_account_info rejects the stored document (ValueError), the
\* Drive API refuses the upload (HttpError), or the upload succeeds
DriveOutcomes == {"ok", "ValueError", "HttpError"}

\* lines 229-265
Drive ==
    /\ pc = "drive"
    /\ IF DriveEnabled(pdf_bytes, gdrive_credentials, gdrive_folder_id)
       THEN /\ attempts' = Append(attempts, "drive")
            /\ \E outcome \in DriveOutcomes :
                /\ drive_request' =
                     IF outcome = "ValueError" THEN <<>>
                     ELSE <<[credentials |-> gdrive_credentials[1],
                             name        |-> PdfFileName(invoice_number),
                             parents     |-> <<gdrive_folder_id>>,
                             media       |-> pdf_bytes,
                             mimetype    |-> "application/pdf"]>>
                /\ IF outcome = "ok"
                   THEN ui' = ui \o <<Element("success", "drive_uploaded", "file id"),
                                      Element("info", "drive_link", "webViewLink")>>
                   ELSE \* except Exception, line 263
                        /\ FirstMatch(<<"Exception">>, outcome) = 1
                        /\ ui' = ui \o <<Element("error", "drive_error", outcome),
                                         Element("info", "check_folder_access", "")>>
       ELSE UNCHANGED <<attempts, drive_request, ui>>
    /\ pc' = "download"
    /\ UNCHANGED <<session, sidebar, form, invoice_data, pdf_bytes, post_result,
                   post_request>>

\* lines 267-278
Download ==
    /\ pc = "download"
    /\ ui' = IF DownloadOffered(pdf_bytes)
             THEN ui \o <<Element("balloons", "balloons", ""),
                          Element("download_button", "download",
                                  [file_name |-> PdfFileName(invoice_number),
                                   data      |-> pdf_bytes,
                                   mime      |-> "application/pdf"])>>
             ELSE ui
    /\ pc' = "preview"
    /\ UNCHANGED <<session, sidebar, form, handler>>

\* lines 280-284
Preview ==
    /\ pc = "preview"
    /\ ui' = Append(ui, Element("json", "invoice_preview", invoice_data[1]))
    /\ pc' = "footer"
    /\ UNCHANGED <<session, sidebar, form, handler>>

\* lines 286-288: the run ends
Footer ==
    /\ pc = "footer"
    /\ ui' = Append(ui, Element("caption", "footer", ""))
    /\ pc' = "idle"
    /\ UNCHANGED <<session, sidebar, form, handler>>

Next ==
    \/ Rerun
    \/ Sidebar
    \/ Form
    \/ Validate
    \/ Render
    \/ Webhook
    \/ Drive
    \/ Download
    \/ Preview
    \/ Footer

Spec == Init /\ [][Next]_vars

(***************************************************************************)
(* Properties.                                                             *)
(***************************************************************************)

\* the page shows an element of this key
Shown(key) == \E i \in 1..Len(ui) : ui[i].key = key

Times(key) == Cardinality({i \in 1..Len(ui) : ui[i].key = key})

Attempted(step) == \E i \in 1..Len(attempts) : attempts[i] = step

\* a run has ended (normally or by an uncaught exception) on a submission
\* that passed validation
ValidSubmissionEnded == pc = "idle" /\ submit /\ invoice_data # <<>>

DriveConfigured == gdrive_credentials # <<>> /\ gdrive_folder_id # ""

\* C1: a submission is rejected with the validation error, with no rendering,
\* no webhook POST, no Drive upload and no download offer, if and only if the
\* customer name or the customer address is empty; when both are filled the
\* record is built and rendering is attempted.
C1_RequiredFieldsGate ==
    (submit /\ pc # "validate") =>
        /\ (/\ Shown("required_fields")
            /\ attempts = <<>>
            /\ pdf_bytes = <<>>
            /\ post_request = <<>>
            /\ drive_request = <<>>
            /\ ~Shown("download"))
           <=> (customer_name = "" \/ customer_address = "")
        /\ (customer_name # "" /\ customer_address # "") =>
            /\ invoice_data # <<>>
            /\ invoice_data[1].customer.name = customer_name
            /\ pc # "render" => Attempted("render")

\* a finished submission with an empty name, a filled address and every sink
\* configured
C1_Witness ==
    /\ pc = "idle"
    /\ submit
    /\ customer_name = ""
    /\ customer_address # ""
    /\ webhook_url # ""
    /\ DriveConfigured
    /\ Shown("required_fields")

\* C2: when rendering fails there are no PDF bytes, and neither the webhook
\* POST nor the Drive upload is attempted, whatever is configured.
C2_NoSinkWithoutDocument ==
    (Attempted("render") /\ pdf_bytes = <<>>) =>
        /\ ~Attempted("webhook")
        /\ ~Attempted("drive")
        /\ post_request = <<>>
        /\ drive_request = <<>>

\* a finished run whose rendering failed with webhook and Drive configured
C2_Witness ==
    /\ pc = "idle"
    /\ Shown("pdf_error")
    /\ Shown("footer")
    /\ webhook_url # ""
    /\ DriveConfigured

\* C3: however the webhook attempt ends, the run goes on: no exception leaves
\* the webhook block, the Drive upload is attempted when credentials and a
\* folder are configured, and the download and the JSON preview follow.
C3_SinkFailuresIndependent ==
    (pc = "idle" /\ Attempted("webhook")) =>
        /\ ~Shown("uncaught")
        /\ DriveConfigured => Attempted("drive")
        /\ Shown("download")
        /\ Shown("invoice_preview")

\* C4: every webhook attempt reports exactly one of four outcomes: success
\* for 200, 201, 202; failed with the response body for any other status;
\* failed with the timeout message for a timeout; failed with the error
\* message for any other error of the POST.
C4_WebhookOutcomeReported ==
    post_result # <<>> =>
        LET r == post_result[1] IN
        /\ Times("webhook_sent") + Times("webhook_failed_status")
             + Times("webhook_timed_out") + Times("webhook_error") = 1
        /\ Shown("webhook_sent")
             <=> (r.raised = "" /\ r.status_code \in {200, 201, 202})
        /\ Shown("webhook_failed_status")
             <=> (r.raised = "" /\ r.status_code \notin {200, 201, 202})
        /\ Shown("webhook_failed_status") =>
             \E i \in 1..Len(ui) :
                 ui[i].key = "webhook_response_body" /\ ui[i].detail = r.text
        /\ Shown("webhook_timed_out")
             <=> r.raised \in {"ReadTimeout", "ConnectTimeout"}
        /\ Shown("webhook_error")
             <=> (r.raised # "" /\ r.raised \notin {"ReadTimeout", "ConnectTimeout"})
        /\ Shown("webhook_error") =>
             \E i \in 1..Len(ui) :
                 ui[i].key = "webhook_error" /\ ui[i].detail = r.raised

\* C5: at the end of a valid submission every configured sink has exactly one
\* reported outcome (success, failed or skipped), and a configured sink is
\* reported as skipped, "document unavailable", when no document was rendered.
C5_EveryConfiguredSinkReported ==
    ValidSubmissionEnded =>
        /\ webhook_url # "" =>
            /\ Times("webhook_sent") + Times("webhook_failed_status")
                 + Times("webhook_timed_out") + Times("webhook_error")
                 + Times("webhook_skipped") = 1
            /\ pdf_bytes = <<>> =>
                 \E i \in 1..Len(ui) :
                     /\ ui[i].key = "webhook_skipped"
                     /\ ui[i].detail = "document unavailable"
        /\ DriveConfigured =>
            /\ Times("drive_uploaded") + Times("drive_error")
                 + Times("drive_skipped") = 1
            /\ pdf_bytes = <<>> =>
                 \E i \in 1..Len(ui) :
                     /\ ui[i].key = "drive_skipped"
                     /\ ui[i].detail = "document unavailable"

\* C6: in a valid submission the Drive upload is attempted if and only if a
\* document was rendered, credentials are held in the session and the folder
\* ID is not empty, whether or not a webhook URL is configured; the upload
\* is named invoice_<invoice_number>.pdf and goes into the configured folder.
C6_DriveAttemptedIff ==
    ValidSubmissionEnded =>
        /\ Attempted("drive") <=> (pdf_bytes # <<>> /\ DriveConfigured)
        /\ drive_request # <<>> =>
            /\ drive_request[1].name = <<"invoice_", invoice_number, ".pdf">>
            /\ drive_request[1].parents = <<gdrive_folder_id>>
            /\ drive_request[1].media = pdf_bytes

\* m1 * 2^e1 = m2 * 2^e2
ExactEq(m1, e1, m2, e2) ==
    LET e == Min(e1, e2) IN NShl(m1, e1 - e) = NShl(m2, e2 - e)

\* x >= y for floats
FGeq(x, y) ==
    IF y.m = <<>> THEN TRUE
    ELSE IF x.m = <<>> THEN FALSE
    ELSE IF x.e # y.e THEN x.e > y.e
    ELSE LET d == {i \in 1..Len(x.m) : x.m[i] # y.m[i]}
         IN  d = {} \/ LET top == CHOOSE i \in d : \A j \in d : j <= i
                       IN  x.m[top] > y.m[top]

\* C7: the financial fields of the transmitted record satisfy
\* subtotal = price_per_unit * quantity, tax_amount = subtotal * tax_rate / 100,
\* total = subtotal + tax_amount and total >= subtotal, with no rounding, and
\* the line item's subtotal is the invoice subtotal.  Each equation is taken
\* in the reading most favourable to the code: it holds when it is exact, and
\* also when the left side is the float the right side evaluates to as written.
C7_FinancialIdentities ==
    invoice_data # <<>> =>
        LET item == invoice_data[1].items[1]
            fin  == invoice_data[1].financial
            qty  == FromInt(item.quantity)
        IN  /\ \/ ExactEq(fin.subtotal.m, fin.subtotal.e,
                          NMul(item.price_per_unit.m, qty.m),
                          item.price_per_unit.e + qty.e)
               \/ fin.subtotal = FMul(item.price_per_unit, qty)
            /\ \/ ExactEq(NMulSmall(fin.tax_amount.m, 100), fin.tax_amount.e,
                          NMul(fin.subtotal.m, fin.tax_rate.m),
                          fin.subtotal.e + fin.tax_rate.e)
               \/ fin.tax_amount = FDivInt(FMul(fin.subtotal, fin.tax_rate), 100)
            /\ \/ fin.tax_amount.m = <<>> /\ fin.total = fin.subtotal
               \/ fin.tax_amount.m # <<>> /\
                  LET e == Min(fin.subtotal.e, fin.tax_amount.e)
                  IN  ExactEq(fin.total.m, fin.total.e,
                              NAdd(NShl(fin.subtotal.m, fin.subtotal.e - e),
                                   NShl(fin.tax_amount.m, fin.tax_amount.e - e)),
                              e)
               \/ fin.total = FAdd(fin.subtotal, fin.tax_amount)
            /\ FGeq(fin.total, fin.subtotal)
            /\ item.subtotal = fin.subtotal

\* C8: in a valid submission the download of invoice_<invoice_number>.pdf is
\* offered if and only if rendering succeeded, whatever the sinks did.
C8_DownloadIffRendered ==
    ValidSubmissionEnded =>
        /\ Shown("download") <=> pdf_bytes # <<>>
        /\ \A i \in 1..Len(ui) :
             ui[i].key = "download" =>
                 /\ ui[i].detail.file_name = <<"invoice_", invoice_number, ".pdf">>
                 /\ ui[i].detail.data = pdf_bytes

\* C9: within one submission every step is attempted at most once and in a
\* fixed order: rendering exactly once (once validation has passed) and before
\* any sink, the webhook POST never after the Drive upload has started, and
\* no sink a second time after a failure.
C9_OrderAndAtMostOnce ==
    /\ \A i, j \in 1..Len(attempts) : i < j => attempts[i] # attempts[j]
    /\ attempts # <<>> => attempts[1] = "render"
    /\ \A i, j \in 1..Len(attempts) :
         (attempts[i] = "webhook" /\ attempts[j] = "drive") => i < j
    /\ (invoice_data # <<>> /\ pc # "render") =>
         Cardinality({i \in 1..Len(attempts) : attempts[i] = "render"}) = 1
    /\ attempts = <<>> => (post_request = <<>> /\ drive_request = <<>>)

\* a finished run whose webhook answered with a failure status and whose Drive
\* upload was refused: three attempts, one each
C9_Witness ==
    /\ pc = "idle"
    /\ attempts = <<"render", "webhook", "drive">>
    /\ Shown("webhook_failed_status")
    /\ Shown("drive_error")

\* C10: the stored Drive credentials change only in the sidebar step of a run
\* whose uploaded file parses, which stores the parsed file; no other step and
\* no other run changes them, and once loaded they are never cleared.
C10_CredentialsChangeOnlyOnParsedUpload ==
    [][/\ gdrive_credentials' # gdrive_credentials =>
            /\ pc = "sidebar"
            /\ uploaded_service_file' \in ValidJsonFiles
       /\ (pc = "sidebar" /\ uploaded_service_file' \in ValidJsonFiles) =>
            gdrive_credentials' =
                <<[client_email |->
                     IF uploaded_service_file' = "{\"client_email\": \"a@x\"}"
                     THEN "a@x" ELSE "b@x"]>>
       /\ gdrive_credentials # <<>> => gdrive_credentials' # <<>>]_vars

\* credentials loaded by an earlier run are used by a later submission whose
\* own upload did not parse
C10_Witness ==
    /\ pc = "idle"
    /\ uploaded_service_file = "not json"
    /\ Shown("service_account_error")
    /\ Shown("drive_uploaded")

=============================================================================
